---------------------------- MODULE Spec2Model ----------------------------
(***************************************************************************)
(* A model of one TFTP session of gotftp (src/handler.go): serve reads     *)
(* the request, serveRRQ resolves the file, negotiates options, and sends  *)
(* the file block by block through writeAndWaitForPacket; serveWRQ         *)
(* rejects the request.                                                    *)
(*                                                                         *)
(* The transport (packetReader, packetWriter), the peer and the backend    *)
(* (Handler, ReadCloser) are the environment: every result they can hand   *)
(* to the session is a nondeterministic choice of the actions.  Time is    *)
(* counted in whole seconds left until the deadline of the current wait.   *)
(* Strings that the code parses or formats (option values) are sequences   *)
(* of one-character strings; a byte of the file is named by its position.  *)
(***************************************************************************)
EXTENDS Integers, Sequences, FiniteSets, TLC

(***************************************************************************)
(* Bounds of the model.                                                    *)
(***************************************************************************)
\* Longest file served, in bytes.
MaxLen == 10
\* Width of the block counter in bits (uint16 in the code).
BlockBits == 2
\* Bytes per Read of a backend stream that returns short reads.
ShortRead == 3

(***************************************************************************)
(* Constants of the program.                                               *)
(***************************************************************************)
DefaultBlksize == 512
DefaultTimeout == 3
MinBlksize == 8
MaxBlksize == 65464
MinTimeout == 1
MaxTimeout == 255
\* Largest value of Go's int on a 32-bit build.
MaxInt == 2147483647
MinInt == -MaxInt - 1

\* Mutants of MaxAttempts: one attempt more, one attempt fewer.
MaxAttemptsMore == 3 + 1
MaxAttemptsFewer == 3 - 1
\* writeAndWaitForPacket: for i := 0; i < 3; i++
MaxAttempts == 3

RECURSIVE Pow2(_)
Pow2(n) == IF n = 0 THEN 1 ELSE 2 * Pow2(n - 1)

\* Number of values of the block counter.
BlockMod == Pow2(BlockBits)

Min(a, b) == IF a < b THEN a ELSE b

(***************************************************************************)
(* strconv.Atoi and strconv.Itoa on strings as sequences of characters.    *)
(***************************************************************************)
Digits == {"0", "1", "2", "3", "4", "5", "6", "7", "8", "9"}

DigitVal(c) ==
    CASE c = "0" -> 0 [] c = "1" -> 1 [] c = "2" -> 2 [] c = "3" -> 3
      [] c = "4" -> 4 [] c = "5" -> 5 [] c = "6" -> 6 [] c = "7" -> 7
      [] c = "8" -> 8 [] c = "9" -> 9

DigitChar(d) == <<"0", "1", "2", "3", "4", "5", "6", "7", "8", "9">>[d + 1]

ErrSyntax == "invalid syntax"
ErrRange == "value out of range"

\* The digits of s accumulated onto acc, negatively when neg; the first bad
\* character or the first step that leaves the range of int ends the parse.
RECURSIVE ParseDigits(_, _, _)
ParseDigits(s, acc, neg) ==
    IF s = <<>> THEN [err |-> "", val |-> acc]
    ELSE IF Head(s) \notin Digits THEN [err |-> ErrSyntax, val |-> 0]
    ELSE LET d == DigitVal(Head(s)) IN
         IF neg
         THEN IF acc < (MinInt + d + 9) \div 10
              THEN [err |-> ErrRange, val |-> 0]
              ELSE ParseDigits(Tail(s), acc * 10 - d, neg)
         ELSE IF acc > (MaxInt - d) \div 10
              THEN [err |-> ErrRange, val |-> 0]
              ELSE ParseDigits(Tail(s), acc * 10 + d, neg)

\* strconv.Atoi: an optional sign, then one or more decimal digits.
Atoi(s) ==
    IF s = <<>> THEN [err |-> ErrSyntax, val |-> 0]
    ELSE LET signed == Head(s) \in {"+", "-"}
             body == IF signed THEN Tail(s) ELSE s
         IN  IF body = <<>> THEN [err |-> ErrSyntax, val |-> 0]
             ELSE ParseDigits(body, 0, Head(s) = "-")

RECURSIVE ItoaNat(_)
ItoaNat(n) ==
    IF n < 10 THEN <<DigitChar(n)>>
    ELSE Append(ItoaNat(n \div 10), DigitChar(n % 10))

\* strconv.Itoa
Itoa(n) == IF n < 0 THEN <<"-">> \o ItoaNat(-n) ELSE ItoaNat(n)

(***************************************************************************)
(* Packets.                                                                *)
(***************************************************************************)
packetERROR(code, message) ==
    [type |-> "ERROR", errorCode |-> code, errorMessage |-> message]
packetOACK(options) == [type |-> "OACK", options |-> options]
packetDATA(nr, data) == [type |-> "DATA", blockNr |-> nr, data |-> data]
packetACK(nr) == [type |-> "ACK", blockNr |-> nr]

\* What the session holds before any packet was read or built.
NoPacket == [type |-> "NONE"]
\* The two failures of packetReader.read.
ReadTimedOut == [type |-> "TIMEOUT"]
ReadFailed == [type |-> "READERR"]

ErrReadText == "read failed"

\* Packets the peer sends while the session waits for a reply.
PeerPackets ==
    {packetACK(b) : b \in 0..(BlockMod - 1)}
        \cup {packetERROR(0, "peer")}

(***************************************************************************)
(* Option maps: functions from a set of option names to value strings.     *)
(***************************************************************************)
NoOptions == <<>>

\* The option maps of the requests of a whole session.
RequestOptions ==
    { NoOptions,
      "blksize" :> <<"8">>,
      "blksize" :> <<"x">>,
      "timeout" :> <<"1">>,
      "tsize" :> <<"0">>,
      ("blksize" :> <<"9">>) @@ ("timeout" :> <<"2", "s">>),
      ("blksize" :> <<"0", "8">>) @@ ("timeout" :> <<"2">>) @@ ("tsize" :> <<"0">>) }

\* The values negotiate is applied to on its own.
BlksizeValues ==
    { <<"-", "1">>, <<"7">>, <<"8">>, <<"0", "9">>, <<"5", "1", "2">>,
      <<"6", "5", "4", "6", "4">>, <<"6", "5", "4", "6", "5">>,
      <<"+", "9">>, <<"x">>, <<>>, <<"-">>, <<"1", "k">>,
      <<"9", "9", "9", "9", "9", "9", "9", "9", "9", "9", "9", "9",
        "9", "9", "9", "9", "9", "9", "9", "9">> }
TimeoutValues ==
    { <<"-", "5">>, <<"0">>, <<"1">>, <<"2">>, <<"2", "5", "5">>,
      <<"2", "5", "6">>, <<"3", "s">>, <<>> }

(***************************************************************************)
(* session.negotiate.  s is the session's [blksize, timeout]; the result   *)
(* is the error text ("" for none), the accepted options and the session   *)
(* values negotiate leaves behind.                                         *)
(***************************************************************************)
\* Mutant of clampBlksize: the upper bound is not applied.
clampBlksizeNoUpper(i) == IF i < MinBlksize THEN MinBlksize ELSE i

\* Lines 152-158.
clampBlksize(i) ==
    IF i < MinBlksize THEN MinBlksize
    ELSE IF i > MaxBlksize THEN MaxBlksize
    ELSE i

\* Lines 171-177.
clampTimeout(i) ==
    IF i < MinTimeout THEN MinTimeout
    ELSE IF i > MaxTimeout THEN MaxTimeout
    ELSE i

\* Lines 144-161: the blksize option.
negotiateBlksize(o, s) ==
    IF "blksize" \in DOMAIN o
    THEN LET r == Atoi(o["blksize"]) IN
         IF r.err # ""
         THEN [err |-> r.err, oack |-> NoOptions,
               blksize |-> s.blksize, timeout |-> s.timeout]
         ELSE [err |-> "",
               oack |-> ("blksize" :> Itoa(clampBlksize(r.val))),
               blksize |-> clampBlksize(r.val), timeout |-> s.timeout]
    ELSE [err |-> "", oack |-> NoOptions,
          blksize |-> s.blksize, timeout |-> s.timeout]

\* Mutant of negotiateTimeout: a timeout value that does not parse is
\* skipped instead of failing the negotiation.
negotiateTimeoutLenient(o, r) ==
    IF "timeout" \in DOMAIN o /\ Atoi(o["timeout"]).err = ""
    THEN [r EXCEPT !.oack = ("timeout" :> Itoa(clampTimeout(Atoi(o["timeout"]).val))) @@ r.oack,
                   !.timeout = clampTimeout(Atoi(o["timeout"]).val)]
    ELSE r

\* Lines 163-180: the timeout option, on what the blksize part left.
negotiateTimeout(o, r) ==
    IF "timeout" \in DOMAIN o
    THEN LET t == Atoi(o["timeout"]) IN
         IF t.err # ""
         THEN [r EXCEPT !.err = t.err, !.oack = NoOptions]
         ELSE [r EXCEPT !.oack = ("timeout" :> Itoa(clampTimeout(t.val))) @@ r.oack,
                        !.timeout = clampTimeout(t.val)]
    ELSE r

\* Mutant of negotiate: a failure restores the session values.
negotiateAtomic(o, s) ==
    LET r == negotiateBlksize(o, s)
        t == IF r.err # "" THEN r ELSE negotiateTimeout(o, r)
    IN  IF t.err # ""
        THEN [t EXCEPT !.blksize = s.blksize, !.timeout = s.timeout]
        ELSE t

negotiate(o, s) ==
    LET r == negotiateBlksize(o, s) IN
    IF r.err # "" THEN r ELSE negotiateTimeout(o, r)

\* Mutant of ackValidator: any acknowledgement is accepted.
ackValidatorAnyAck(nr, p) == p.type = "ACK"

\* ackValidator(blockNr)(p)
ackValidator(nr, p) == p.type = "ACK" /\ p.blockNr = nr

(***************************************************************************)
(* The backend.  The file name decides what Handler.ReadFile returns.      *)
(***************************************************************************)
Filenames == {"file", "missing", "secret", "broken"}

ReadFileError(filename) ==
    CASE filename = "missing" -> "file does not exist"
      [] filename = "secret" -> "permission denied"
      [] filename = "broken" -> "backend failure"
      [] OTHER -> ""

\* Mutant of readFileErrorCode: the cases of not found and permission denied
\* are swapped.
readFileErrorCodeSwapped(err) ==
    CASE err = "file does not exist" -> 2
      [] err = "permission denied" -> 1
      [] OTHER -> 0

\* serveRRQ, lines 195-202: the code of the error packet for a ReadFile error.
readFileErrorCode(err) ==
    CASE err = "file does not exist" -> 1
      [] err = "permission denied" -> 2
      [] OTHER -> 0

ErrStreamText == "stream failed"

\* The bytes of a file of length n: each byte is named by its position.
FileOfLen(n) == [k \in 1..n |-> k]

(***************************************************************************)
(* The state of a session.                                                 *)
(***************************************************************************)
VARIABLES
    pc,        \* where the session is: start, open, negotiate, transfer,
               \* write, read or done
    req,       \* the request packet read by serve
    blksize,   \* session.blksize
    timeout,   \* session.timeout
    wlog,      \* the packets handed to packetWriter.write, in order
    reply,     \* the last result of packetReader.read inside a wait
    cur,       \* writeAndWaitForPacket's p
    v,         \* the block number writeAndWaitForPacket's validator accepts
    i,         \* writeAndWaitForPacket's attempt counter
    rem,       \* seconds left until end in the current wait
    blockNr,   \* serveRRQ's block counter
    buflen,    \* len(buf) of serveRRQ
    file,      \* the bytes of the backend stream
    off,       \* how many bytes of it were read
    chunk,     \* most bytes the stream returns from one Read
    rc,        \* the backend stream: none, open or closed
    closes,    \* how often rc.Close was called
    calls,     \* the calls made to the Handler
    outcome    \* how the session ended

vars == <<pc, req, blksize, timeout, wlog, reply, cur, v, i, rem, blockNr,
          buflen, file, off, chunk, rc, closes, calls, outcome>>

\* serve, lines 61-68.
Init ==
    /\ pc = "start"
    /\ req = NoPacket
    /\ blksize = DefaultBlksize
    /\ timeout = DefaultTimeout
    /\ wlog = <<>>
    /\ reply = NoPacket
    /\ cur = NoPacket
    /\ v = 0
    /\ i = 0
    /\ rem = 0
    /\ blockNr = 0
    /\ buflen = 0
    /\ file = <<>>
    /\ off = 0
    /\ chunk = 0
    /\ rc = "none"
    /\ closes = 0
    /\ calls = <<>>
    /\ outcome = "none"

\* packetWriter.write(x): the call is logged whether or not it succeeds.
write(x) == wlog' = Append(wlog, x)

\* Mutant of writeError: the error packet is written twice.
writeErrorTwice(code, message) ==
    wlog' = Append(Append(wlog, packetERROR(code, message)),
                   packetERROR(code, message))

\* session.writeError
writeError(code, message) == write(packetERROR(code, message))

\* The deferred rc.Close() of serveRRQ.
Close == rc' = "closed" /\ closes' = closes + 1

\* The session returns from serve.
Finish(o) == pc' = "done" /\ outcome' = o

(***************************************************************************)
(* serve, serveWRQ.                                                        *)
(***************************************************************************)
\* serve, lines 125-129: reading the request fails.
ServeReadFails ==
    /\ pc = "start"
    /\ writeError(0, ErrReadText)
    /\ Finish("request_error")
    /\ UNCHANGED <<req, blksize, timeout, reply, cur, v, i, rem, blockNr,
                   buflen, file, off, chunk, rc, closes, calls>>

\* serve, lines 132-133: the request is an RRQ.
ServeRRQ ==
    /\ pc = "start"
    /\ \E f \in Filenames, o \in RequestOptions :
          req' = [type |-> "RRQ", filename |-> f, options |-> o]
    /\ pc' = "open"
    /\ UNCHANGED <<blksize, timeout, wlog, reply, cur, v, i, rem, blockNr,
                   buflen, file, off, chunk, rc, closes, calls, outcome>>

\* Mutant of ServeWRQ: the write request is served like a read request.
ServeWRQAsRRQ ==
    /\ pc = "start"
    /\ \E f \in Filenames, o \in RequestOptions :
          req' = [type |-> "WRQ", filename |-> f, options |-> o]
    /\ pc' = "open"
    /\ UNCHANGED <<blksize, timeout, wlog, reply, cur, v, i, rem, blockNr,
                   buflen, file, off, chunk, rc, closes, calls, outcome>>

\* serve, lines 134-135, and serveWRQ.
ServeWRQ ==
    /\ pc = "start"
    /\ \E f \in Filenames, o \in RequestOptions :
          req' = [type |-> "WRQ", filename |-> f, options |-> o]
    /\ writeError(0, "not supported")
    /\ Finish("not_supported")
    /\ UNCHANGED <<blksize, timeout, reply, cur, v, i, rem, blockNr,
                   buflen, file, off, chunk, rc, closes, calls>>

\* serve, lines 136-137: any other packet.
ServeOther ==
    /\ pc = "start"
    /\ \E p \in PeerPackets : req' = p
    /\ writeError(4, "")
    /\ Finish("illegal_operation")
    /\ UNCHANGED <<blksize, timeout, reply, cur, v, i, rem, blockNr,
                   buflen, file, off, chunk, rc, closes, calls>>

(***************************************************************************)
(* serveRRQ.                                                               *)
(***************************************************************************)
\* Mutant of EnterTransfer: the block counter starts at 0.
EnterTransferFromZero ==
    /\ buflen' = blksize
    /\ blockNr' = 0
    /\ pc' = "transfer"

\* Lines 226-227: buf is made and the block counter starts.
EnterTransfer ==
    /\ buflen' = blksize
    /\ blockNr' = 1
    /\ pc' = "transfer"

\* Lines 193-204: ReadFile fails.
ReadFileFails ==
    /\ pc = "open"
    /\ ReadFileError(req.filename) # ""
    /\ calls' = Append(calls, "ReadFile")
    /\ writeError(readFileErrorCode(ReadFileError(req.filename)),
                  ReadFileError(req.filename))
    /\ Finish("backend_error")
    /\ UNCHANGED <<req, blksize, timeout, reply, cur, v, i, rem, blockNr,
                   buflen, file, off, chunk, rc, closes>>

\* Lines 193, 206-211: ReadFile returns a stream of some length.
ReadFileOK ==
    /\ pc = "open"
    /\ ReadFileError(req.filename) = ""
    /\ calls' = Append(calls, "ReadFile")
    /\ \E n \in 0..MaxLen : file' = FileOfLen(n)
    /\ \E c \in {ShortRead, MaxBlksize} : chunk' = c
    /\ rc' = "open"
    /\ off' = 0
    /\ IF DOMAIN req.options # {}
       THEN pc' = "negotiate" /\ UNCHANGED <<buflen, blockNr>>
       ELSE EnterTransfer
    /\ UNCHANGED <<req, blksize, timeout, wlog, reply, cur, v, i, rem,
                   closes, outcome>>

\* Lines 212-219: negotiate, then the error packet or the OACK.
Negotiate ==
    /\ pc = "negotiate"
    /\ LET r == negotiate(req.options, [blksize |-> blksize, timeout |-> timeout]) IN
       /\ blksize' = r.blksize
       /\ timeout' = r.timeout
       /\ IF r.err # ""
          THEN /\ writeError(8, r.err)
               /\ Close
               /\ Finish("negotiation_error")
               /\ UNCHANGED <<cur, v, i>>
          ELSE /\ cur' = packetOACK(r.oack)
               /\ v' = 0
               /\ i' = 0
               /\ pc' = "write"
               /\ UNCHANGED <<wlog, rc, closes, outcome>>
    /\ UNCHANGED <<req, reply, rem, blockNr, buflen, file, off, chunk, calls>>

\* Mutant of ReadLen: the stream is not held to the length of buf.
ReadLenNoBuf == Min(chunk, Len(file) - off)

\* rc.Read(buf): the bytes one Read returns.
ReadLen == Min(Min(buflen, chunk), Len(file) - off)

\* Lines 228-233: the stream is at its end.
StreamEOF ==
    /\ pc = "transfer"
    /\ ReadLen = 0
    /\ Close
    /\ Finish("completed")
    /\ UNCHANGED <<req, blksize, timeout, wlog, reply, cur, v, i, rem,
                   blockNr, buflen, file, off, chunk, calls>>

\* Mutant of StreamFails: the session ends without the error packet.
StreamFailsSilent ==
    /\ pc = "transfer"
    /\ Close
    /\ Finish("stream_error")
    /\ UNCHANGED <<req, blksize, timeout, wlog, reply, cur, v, i, rem,
                   blockNr, buflen, file, off, chunk, calls>>

\* Lines 228-237: the stream fails and returns no bytes.
StreamFails ==
    /\ pc = "transfer"
    /\ writeError(0, ErrStreamText)
    /\ Close
    /\ Finish("stream_error")
    /\ UNCHANGED <<req, blksize, timeout, reply, cur, v, i, rem,
                   blockNr, buflen, file, off, chunk, calls>>

\* Mutant of StreamData: a Read of zero bytes becomes a data packet too.
StreamDataAlways ==
    /\ pc = "transfer"
    /\ cur' = packetDATA(blockNr, SubSeq(file, off + 1, off + ReadLen))
    /\ off' = off + ReadLen
    /\ v' = blockNr
    /\ i' = 0
    /\ pc' = "write"
    /\ UNCHANGED <<req, blksize, timeout, wlog, reply, rem, blockNr, buflen,
                   file, chunk, rc, closes, calls, outcome>>

\* Lines 228, 240-245: the stream returns bytes, which become a data packet.
StreamData ==
    /\ pc = "transfer"
    /\ ReadLen > 0
    /\ cur' = packetDATA(blockNr, SubSeq(file, off + 1, off + ReadLen))
    /\ off' = off + ReadLen
    /\ v' = blockNr
    /\ i' = 0
    /\ pc' = "write"
    /\ UNCHANGED <<req, blksize, timeout, wlog, reply, rem, blockNr, buflen,
                   file, chunk, rc, closes, calls, outcome>>

\* Mutant of NextBlockNr: the counter is not advanced.
NextBlockNrStuck(nr) == nr

\* Line 227: blockNr++ on a uint16.
NextBlockNr(nr) == (nr + 1) % BlockMod

\* Lines 219-223 and 245-249: writeAndWaitForPacket returned the reply.
Acknowledged ==
    IF cur.type = "OACK"
    THEN EnterTransfer
    ELSE /\ blockNr' = NextBlockNr(blockNr)
         /\ pc' = "transfer"
         /\ UNCHANGED buflen

\* Mutant of Abort: the stream is not closed on the way out.
AbortLeak(o) == Finish(o) /\ UNCHANGED <<rc, closes>>

\* Lines 220-222 and 246-248: writeAndWaitForPacket returned an error.
Abort(o) == Close /\ Finish(o)

(***************************************************************************)
(* writeAndWaitForPacket.                                                  *)
(***************************************************************************)
\* Lines 94-100: the packet is written and the wait begins.
WriteOK ==
    /\ pc = "write"
    /\ write(cur)
    /\ rem' = timeout
    /\ pc' = "read"
    /\ UNCHANGED <<req, blksize, timeout, reply, cur, v, i, blockNr, buflen,
                   file, off, chunk, rc, closes, calls, outcome>>

\* Lines 94-97: the write fails.
WriteFails ==
    /\ pc = "write"
    /\ write(cur)
    /\ Abort("write_error")
    /\ UNCHANGED <<req, blksize, timeout, reply, cur, v, i, rem, blockNr,
                   buflen, file, off, chunk, calls>>

\* Lines 93, 101, 121: an attempt ended without a reply: the next one, or
\* ErrTimeout after the last.
AttemptEnds ==
    /\ i' = i + 1
    /\ IF i + 1 < MaxAttempts
       THEN pc' = "write" /\ UNCHANGED <<rc, closes, outcome>>
       ELSE Abort("timeout")

\* Lines 104-107: read returns ErrTimeout.
ReadTimeout ==
    /\ pc = "read"
    /\ reply' = ReadTimedOut
    /\ rem' = 0
    /\ AttemptEnds
    /\ UNCHANGED <<req, blksize, timeout, wlog, cur, v, blockNr, buflen,
                   file, off, chunk, calls>>

\* Mutant of ReadFails: after the error packet the exchange goes on as
\* after a timeout instead of returning the error.
ReadFailsGoesOn ==
    /\ pc = "read"
    /\ reply' = ReadFailed
    /\ writeError(0, ErrReadText)
    /\ rem' = 0
    /\ AttemptEnds
    /\ UNCHANGED <<req, blksize, timeout, cur, v, blockNr, buflen,
                   file, off, chunk, calls>>

\* Lines 104, 109-112: read fails otherwise.
ReadFails ==
    /\ pc = "read"
    /\ reply' = ReadFailed
    /\ writeError(0, ErrReadText)
    /\ Abort("read_error")
    /\ UNCHANGED <<req, blksize, timeout, cur, v, i, rem, blockNr, buflen,
                   file, off, chunk, calls>>

\* Lines 104, 115-117: read returns a packet the validator accepts.
ReadValid ==
    /\ pc = "read"
    /\ \E p \in PeerPackets :
          /\ ackValidator(v, p)
          /\ reply' = p
    /\ Acknowledged
    /\ UNCHANGED <<req, blksize, timeout, wlog, cur, v, i, rem, file, off,
                   chunk, rc, closes, calls, outcome>>

\* Mutant of ReadDiscardAfter: the deadline is taken anew at every read.
ReadDiscardRenews(d) ==
    /\ pc = "read"
    /\ \E p \in PeerPackets :
          /\ ~ackValidator(v, p)
          /\ reply' = p
    /\ rem' = timeout
    /\ UNCHANGED <<pc, i, rc, closes, outcome>>
    /\ UNCHANGED <<req, blksize, timeout, wlog, cur, v, blockNr, buflen,
                   file, off, chunk, calls>>

\* Lines 101-118: read returns, d seconds later, a packet the validator
\* rejects; the wait goes on while now is before end.
ReadDiscardAfter(d) ==
    /\ pc = "read"
    /\ \E p \in PeerPackets :
          /\ ~ackValidator(v, p)
          /\ reply' = p
    /\ rem' = rem - d
    /\ IF rem' > 0
       THEN UNCHANGED <<pc, i, rc, closes, outcome>>
       ELSE AttemptEnds
    /\ UNCHANGED <<req, blksize, timeout, wlog, cur, v, blockNr, buflen,
                   file, off, chunk, calls>>

\* The read may return at once: d ranges from 0 to the time left.
ReadDiscard == \E d \in 0..rem : ReadDiscardAfter(d)

Next ==
    \/ ServeReadFails
    \/ ServeRRQ
    \/ ServeWRQ
    \/ ServeOther
    \/ ReadFileFails
    \/ ReadFileOK
    \/ Negotiate
    \/ StreamEOF
    \/ StreamFails
    \/ StreamData
    \/ WriteOK
    \/ WriteFails
    \/ ReadTimeout
    \/ ReadFails
    \/ ReadValid
    \/ ReadDiscard

Spec == Init /\ [][Next]_vars

\* The steps in which a call returns after time has passed or the session
\* moves on: every step except the discard of a packet read at once.
Progress ==
    \/ ServeReadFails
    \/ ServeRRQ
    \/ ServeWRQ
    \/ ServeOther
    \/ ReadFileFails
    \/ ReadFileOK
    \/ Negotiate
    \/ StreamEOF
    \/ StreamFails
    \/ StreamData
    \/ WriteOK
    \/ WriteFails
    \/ ReadTimeout
    \/ ReadFails
    \/ ReadValid
    \/ \E d \in 1..rem : ReadDiscardAfter(d)

\* The session runs to its end without being suspended outside the wait for
\* a reply, every read returns within its timeout and time advances: the
\* peer cannot hold the session in a wait with packets that take no time.
SpecFair == Init /\ [][Next]_vars /\ WF_vars(Progress)

TypeOK ==
    /\ pc \in {"start", "open", "negotiate", "transfer", "write", "read", "done"}
    /\ blksize \in MinBlksize..MaxBlksize
    /\ timeout \in MinTimeout..MaxTimeout
    /\ i \in 0..MaxAttempts
    /\ rem \in 0..timeout
    /\ blockNr \in 0..(BlockMod - 1)
    /\ off \in 0..Len(file)
    /\ rc \in {"none", "open", "closed"}
    /\ (pc = "done") = (outcome # "none")

(***************************************************************************)
(* What the claims speak of.                                               *)
(***************************************************************************)
Count(seq, p) == Cardinality({k \in DOMAIN seq : seq[k] = p})

\* How many of the last entries of seq are p.
RECURSIVE TrailingRun(_, _)
TrailingRun(seq, p) ==
    IF seq = <<>> \/ seq[Len(seq)] # p THEN 0
    ELSE 1 + TrailingRun(SubSeq(seq, 1, Len(seq) - 1), p)

\* seq without the repeats of an entry that follow it directly.
RECURSIVE Dedup(_)
Dedup(seq) ==
    IF seq = <<>> THEN <<>>
    ELSE LET r == Dedup(SubSeq(seq, 1, Len(seq) - 1)) IN
         IF r # <<>> /\ r[Len(r)] = seq[Len(seq)] THEN r
         ELSE Append(r, seq[Len(seq)])

IsData(p) == p.type = "DATA"
IsError(p) == p.type = "ERROR"
IsOack(p) == p.type = "OACK"

\* The data packets written, and the distinct data blocks in send order.
DataSends == SelectSeq(wlog, IsData)
DataBlocks == Dedup(DataSends)
ErrorSends == SelectSeq(wlog, IsError)
OackSends == SelectSeq(wlog, IsOack)

\* The copies of the entry at k are next to each other.
Contiguous(seq, k) ==
    \A j \in DOMAIN seq : \A m \in DOMAIN seq :
        (j < m /\ seq[j] = seq[k] /\ seq[m] = seq[k])
            => \A n \in j..m : seq[n] = seq[k]

\* C1: in every invocation of writeAndWaitForPacket(p, v) the packet p is
\* written at least once and at most 3 times, every write carries the same
\* p, and a second or third write happens only after the wait of the
\* previous attempt ended without a reply accepted by v.
C1_ExchangeWrites ==
    /\ pc = "write" =>
          /\ i <= 2
          /\ TrailingRun(wlog, cur) = i
          /\ i > 0 => (rem = 0 /\ reply # NoPacket /\ ~(reply.type = "ACK" /\ reply.blockNr = v))
    /\ pc = "read" =>
          /\ i <= 2
          /\ TrailingRun(wlog, cur) = i + 1
    /\ (pc \in {"transfer", "done"} /\ cur # NoPacket) =>
          Count(wlog, cur) \in 1..3
    /\ \A k \in DOMAIN wlog :
          ~IsError(wlog[k]) => (Count(wlog, wlog[k]) <= 3 /\ Contiguous(wlog, k))

\* C1 witness: a third write of a data block, made after a wait that ended
\* on a discarded acknowledgement.
C1_Witness ==
    /\ pc = "read"
    /\ i = 2
    /\ cur.type = "DATA"
    /\ TrailingRun(wlog, cur) = 3
    /\ reply.type = "ACK"

\* C2: when all 3 attempts of a step end without a validated reply the step
\* fails with ErrTimeout and the session ends silently: the third write of
\* that step is the last packet written, and no error packet is written.
C2_SilentTimeout ==
    /\ (pc = "done" /\ i = 3) => outcome = "timeout"
    /\ outcome = "timeout" =>
          /\ pc = "done"
          /\ i = 3
          /\ ~IsError(cur)
          /\ Count(wlog, cur) = 3
          /\ TrailingRun(wlog, cur) = 3
          /\ ErrorSends = <<>>
          /\ ~(reply.type = "ACK" /\ reply.blockNr = v)

\* C2 witness: a data step of the second block timed out.
C2_Witness ==
    /\ outcome = "timeout"
    /\ cur.type = "DATA"
    /\ Len(DataBlocks) = 2

\* A step of ReadDiscard: in a wait, read returns a decoded packet that is
\* not the acknowledgement of the block waited for.
DiscardStep ==
    /\ pc = "read"
    /\ reply'.type \in {"ACK", "ERROR", "DATA", "OACK"}
    /\ ~(reply'.type = "ACK" /\ reply'.blockNr = v)

\* C3: while the session waits for the acknowledgement of block N, a decoded
\* packet that is not an ACK of exactly N is discarded: nothing is written,
\* the block number, the packet and the validator stay, the wait is not
\* restarted, and while the deadline has not passed the attempt goes on.
C3_Discard ==
    [][DiscardStep =>
          /\ wlog' = wlog
          /\ blockNr' = blockNr
          /\ cur' = cur
          /\ v' = v
          /\ off' = off
          /\ rem' <= rem
          /\ rem' > 0 => (pc' = "read" /\ i' = i /\ outcome' = "none")
          /\ rem' = 0 => (i' = i + 1 /\ pc' \in {"write", "done"})
      ]_vars

\* C3 witness: waiting for the acknowledgement of block 2, the session has
\* read a repeated acknowledgement of block 1 and goes on waiting.
C3_Witness ==
    /\ pc = "read"
    /\ cur.type = "DATA"
    /\ v = 2
    /\ reply = packetACK(1)
    /\ rem > 0
    /\ rem < timeout

\* The first write of a data block: a data packet that is not the packet
\* written last.
NewBlockStep ==
    /\ Len(wlog') = Len(wlog) + 1
    /\ IsData(wlog'[Len(wlog')])
    /\ (wlog = <<>> \/ wlog[Len(wlog)] # wlog'[Len(wlog')])

\* C4 (amended): data blocks are sent stop-and-wait: block N+1 is first
\* written only when the last packet read is the ACK of exactly N, and the
\* numbers of the distinct data blocks sent are 1, 2, 3, ... in send order,
\* each the previous one plus 1 modulo the width of the block counter.
C4_StopAndWait ==
    /\ [](\A k \in DOMAIN DataBlocks : DataBlocks[k].blockNr = k % BlockMod)
    /\ [][NewBlockStep =>
            /\ DataBlocks # <<>> =>
                  /\ reply = packetACK(DataBlocks[Len(DataBlocks)].blockNr)
                  /\ wlog'[Len(wlog')].blockNr
                        = (DataBlocks[Len(DataBlocks)].blockNr + 1) % BlockMod
            /\ DataBlocks = <<>> => wlog'[Len(wlog')].blockNr = 1
        ]_vars

\* C4 witness: the third data block has been written after the
\* acknowledgement of the second.
C4_Witness ==
    /\ Len(DataBlocks) = 3
    /\ pc = "read"
    /\ reply = packetACK(2)

\* C4 as stated: the block numbers of the distinct data blocks sent are
\* strictly increasing in send order.
C4_StrictlyIncreasing ==
    \A j \in DOMAIN DataBlocks : \A k \in DOMAIN DataBlocks :
        j < k => DataBlocks[j].blockNr < DataBlocks[k].blockNr

\* C5: for a file of length L and block size B, a session in which every
\* block is acknowledged and every Read fills the buffer sends exactly
\* floor(L/B) + 1 distinct data blocks numbered 1..N, the last carrying
\* L mod B bytes (none when L is a multiple of B).
C5_BlockCount ==
    (outcome = "completed" /\ chunk >= buflen) =>
        /\ Len(DataBlocks) = (Len(file) \div buflen) + 1
        /\ \A k \in DOMAIN DataBlocks : DataBlocks[k].blockNr = k
        /\ Len(DataBlocks[Len(DataBlocks)].data) = Len(file) % buflen

\* C7: when ReadFile fails the session writes exactly one packet, the error
\* packet with code 1 (does not exist), 2 (permission denied) or 0 (other),
\* and no OACK and no data packet, with or without options in the request.
C7_BackendFailure ==
    (req.type = "RRQ" /\ req.filename \in {"missing", "secret", "broken"}) =>
        /\ pc \in {"open", "done"}
        /\ pc = "open" => wlog = <<>>
        /\ pc = "done" =>
              /\ Len(wlog) = 1
              /\ wlog[1].type = "ERROR"
              /\ req.filename = "missing" => wlog[1].errorCode = 1
              /\ req.filename = "secret" => wlog[1].errorCode = 2
              /\ req.filename = "broken" => wlog[1].errorCode = 0
              /\ wlog[1].errorMessage = ReadFileError(req.filename)
              /\ outcome = "backend_error"
        /\ rc = "none"

\* C7 witness: a request with options for a file the peer may not read has
\* been answered.
C7_Witness ==
    /\ pc = "done"
    /\ req.type = "RRQ"
    /\ req.filename = "secret"
    /\ DOMAIN req.options # {}
    /\ wlog = <<packetERROR(2, "permission denied")>>

\* C8: every WRQ is answered with exactly one packet, the error packet with
\* code 0 and message "not supported"; the backend is not called, no option
\* is negotiated, and the session ends.
C8_WriteRequest ==
    req.type = "WRQ" =>
        /\ pc = "done"
        /\ outcome = "not_supported"
        /\ wlog = <<packetERROR(0, "not supported")>>
        /\ calls = <<>>
        /\ rc = "none"
        /\ blksize = 512
        /\ timeout = 3

\* C8 witness: a WRQ with a valid blksize option has been answered.
C8_Witness ==
    /\ req.type = "WRQ"
    /\ "blksize" \in DOMAIN req.options
    /\ Len(wlog) = 1

\* The request carries a blksize or timeout value that Atoi rejects.
BadOption(o) ==
    \/ "blksize" \in DOMAIN o /\ Atoi(o["blksize"]).err # ""
    \/ "timeout" \in DOMAIN o /\ Atoi(o["timeout"]).err # ""

\* C10: when the file was resolved and the RRQ carries a blksize or timeout
\* value that does not parse as an integer, the session writes exactly one
\* packet, an error packet with code 8, and ends: never an OACK or a data
\* packet.
C10_NegotiationError ==
    (req.type = "RRQ" /\ rc # "none" /\ BadOption(req.options)) =>
        /\ pc \in {"negotiate", "done"}
        /\ pc = "negotiate" => wlog = <<>>
        /\ pc = "done" =>
              /\ Len(wlog) = 1
              /\ wlog[1].type = "ERROR"
              /\ wlog[1].errorCode = 8
              /\ outcome = "negotiation_error"

\* C10 witness: a request whose blksize parses and whose timeout does not
\* has been answered.
C10_Witness ==
    /\ pc = "done"
    /\ rc # "none"
    /\ "blksize" \in DOMAIN req.options
    /\ "timeout" \in DOMAIN req.options
    /\ Atoi(req.options["blksize"]).err = ""
    /\ Atoi(req.options["timeout"]).err # ""
    /\ Len(wlog) = 1

(***************************************************************************)
(* negotiate on its own: the session has resolved the file of an RRQ that  *)
(* carries options, with values drawn from BlksizeValues and               *)
(* TimeoutValues, and runs Negotiate.                                      *)
(***************************************************************************)
NegotiateOptions ==
    { b @@ t @@ u :
        b \in {NoOptions} \cup {"blksize" :> x : x \in BlksizeValues},
        t \in {NoOptions} \cup {"timeout" :> x : x \in TimeoutValues},
        u \in {NoOptions, "tsize" :> <<"0">>} } \ {NoOptions}

InitNegotiate ==
    /\ pc = "negotiate"
    /\ \E o \in NegotiateOptions :
          req = [type |-> "RRQ", filename |-> "file", options |-> o]
    /\ blksize = DefaultBlksize
    /\ timeout = DefaultTimeout
    /\ wlog = <<>>
    /\ reply = NoPacket
    /\ cur = NoPacket
    /\ v = 0
    /\ i = 0
    /\ rem = 0
    /\ blockNr = 0
    /\ buflen = 0
    /\ file = <<>>
    /\ off = 0
    /\ chunk = MaxBlksize
    /\ rc = "open"
    /\ closes = 0
    /\ calls = <<"ReadFile">>
    /\ outcome = "none"

NextNegotiate == Negotiate

SpecNegotiate == InitNegotiate /\ [][NextNegotiate]_vars

Clamp(x, lo, hi) == IF x < lo THEN lo ELSE IF x > hi THEN hi ELSE x

HasBlksize == "blksize" \in DOMAIN req.options
HasTimeout == "timeout" \in DOMAIN req.options
BlksizeParses == HasBlksize /\ Atoi(req.options["blksize"]).err = ""
TimeoutParses == HasTimeout /\ Atoi(req.options["timeout"]).err = ""
Negotiated == pc # "negotiate"

\* The accepted options carry name with the decimal text of n.
Echoed(name, n) ==
    /\ pc = "write"
    /\ cur.type = "OACK"
    /\ name \in DOMAIN cur.options
    /\ Atoi(cur.options[name]) = [err |-> "", val |-> n]
    /\ Head(cur.options[name]) \in Digits \ {"0"}

\* C9 (amended): when every blksize and timeout value the request carries
\* parses as an integer, negotiate succeeds, sets the block size to
\* clamp(v, 8, 65464) and the timeout to clamp(v, 1, 255) for the values
\* requested and echoes the clamped values; any other option name is absent
\* from the accepted options and causes no error; an option not requested
\* keeps its default (512, 3) and is not echoed.
C9_Clamp ==
    (Negotiated /\ (HasBlksize => BlksizeParses) /\ (HasTimeout => TimeoutParses)) =>
        /\ pc = "write"
        /\ cur.type = "OACK"
        /\ wlog = <<>>
        /\ DOMAIN cur.options = DOMAIN req.options \cap {"blksize", "timeout"}
        /\ HasBlksize =>
              /\ blksize = Clamp(Atoi(req.options["blksize"]).val, 8, 65464)
              /\ Echoed("blksize", blksize)
        /\ ~HasBlksize => blksize = 512
        /\ HasTimeout =>
              /\ timeout = Clamp(Atoi(req.options["timeout"]).val, 1, 255)
              /\ Echoed("timeout", timeout)
        /\ ~HasTimeout => timeout = 3

\* C9 witness: a blksize above the range and a timeout below it were
\* requested beside an unknown option, and negotiate has clamped both.
C9_Witness ==
    /\ pc = "write"
    /\ req.options = ("blksize" :> <<"6", "5", "4", "6", "5">>)
                        @@ ("timeout" :> <<"-", "5">>) @@ ("tsize" :> <<"0">>)
    /\ blksize = 65464
    /\ timeout = 1
    /\ cur.options = ("blksize" :> <<"6", "5", "4", "6", "4">>) @@ ("timeout" :> <<"1">>)

\* C9 as stated: every integer value requested for blksize, and every one
\* requested for timeout, is clamped into the session and echoed in the
\* accepted options.
C9_EveryIntegerValue ==
    Negotiated =>
        /\ BlksizeParses =>
              /\ blksize = Clamp(Atoi(req.options["blksize"]).val, 8, 65464)
              /\ Echoed("blksize", blksize)
        /\ TimeoutParses =>
              /\ timeout = Clamp(Atoi(req.options["timeout"]).val, 1, 255)
              /\ Echoed("timeout", timeout)

(***************************************************************************)
(* A session over a channel that loses replies.  The peer answers every    *)
(* packet with its acknowledgement; the channel may lose the answer or     *)
(* deliver a repeated acknowledgement, but no step loses more than 2       *)
(* answers in a row: an attempt ends without a reply only while i < 2.     *)
(* The file resolves, its options parse, and no read or write fails.       *)
(***************************************************************************)
LossyServeRRQ ==
    /\ ServeRRQ
    /\ req'.filename = "file"
    /\ ~BadOption(req'.options)

LossyReadTimeout == i < 2 /\ ReadTimeout

LossyReadDiscard ==
    /\ ReadDiscard
    /\ reply'.type = "ACK"
    /\ (rem' > 0 \/ i < 2)

NextLossy ==
    \/ LossyServeRRQ
    \/ ReadFileOK
    \/ Negotiate
    \/ StreamEOF
    \/ StreamData
    \/ WriteOK
    \/ ReadValid
    \/ LossyReadTimeout
    \/ LossyReadDiscard

\* The steps other than the discard of a repeated acknowledgement.
LossyProgress ==
    \/ LossyServeRRQ
    \/ ReadFileOK
    \/ Negotiate
    \/ StreamEOF
    \/ StreamData
    \/ WriteOK
    \/ ReadValid
    \/ LossyReadTimeout

\* The session runs on its own and time advances: every call returns, and a
\* wait ends with the reply or with the timeout, so repeated
\* acknowledgements cannot be read forever.
SpecLossy == Init /\ [][NextLossy]_vars /\ WF_vars(LossyProgress)

\* C6: over a channel on which no step (OACK or data block) loses more than
\* 2 replies in a row, with a backend whose reads succeed, the session is
\* never aborted and reaches Completed with the whole stream read and the
\* last step acknowledged.
C6_LossyCompletes ==
    /\ [](outcome \in {"none", "completed"})
    /\ [](outcome = "completed" =>
            /\ off = Len(file)
            /\ cur # NoPacket => (reply.type = "ACK" /\ reply.blockNr = v))
    /\ <>(outcome = "completed")

\* C6 witness: a session completed in which the OACK and the last data block
\* were each written 3 times.
C6_Witness ==
    /\ outcome = "completed"
    /\ Len(DataBlocks) >= 2
    /\ Len(OackSends) = 3
    /\ Count(wlog, cur) = 3

\* The first data packet of the session is being written.
FirstDataStep == NewBlockStep /\ DataBlocks = <<>>

\* C11: when the RRQ carries options and negotiation succeeds the OACK is
\* the first packet written, and data block 1 is first written only when the
\* last packet read is the ACK with block number 0 and only OACKs were
\* written before; when the OACK step fails no data packet is written.
\* Without options no OACK is written and the first packet, when data is
\* sent, is data block 1.
C11_OackFirst ==
    /\ []((req.type = "RRQ" /\ DOMAIN req.options # {} /\ wlog # <<>>
             /\ rc # "none" /\ ~BadOption(req.options))
            => wlog[1].type = "OACK")
    /\ []((cur.type = "OACK" /\ pc = "done") => DataSends = <<>>)
    /\ []((req.type = "RRQ" /\ DOMAIN req.options = {})
            => /\ OackSends = <<>>
               /\ DataSends # <<>> => (wlog[1].type = "DATA" /\ wlog[1].blockNr = 1))
    /\ [][FirstDataStep =>
            /\ wlog'[Len(wlog')].blockNr = 1
            /\ DOMAIN req.options # {} =>
                  /\ reply = packetACK(0)
                  /\ wlog # <<>>
                  /\ \A k \in DOMAIN wlog : wlog[k].type = "OACK"
            /\ DOMAIN req.options = {} => wlog = <<>>
        ]_vars

\* C11 witness: the OACK was written twice, the ACK of block 0 was read and
\* data block 1 has been written.
C11_Witness ==
    /\ pc = "read"
    /\ Len(OackSends) = 2
    /\ Len(DataSends) = 1
    /\ cur.type = "DATA"
    /\ reply = packetACK(0)

\* C12: when a read of a reply fails for a reason other than timeout the
\* session writes exactly one error packet, with code 0 and the error text,
\* right after the packet of the step; the packet is not written again even
\* after fewer than 3 attempts, and the session ends.
C12_ReadError ==
    /\ reply = ReadFailed => outcome = "read_error"
    /\ outcome = "read_error" =>
          /\ pc = "done"
          /\ reply = ReadFailed
          /\ i <= 2
          /\ Len(wlog) >= 2
          /\ wlog[Len(wlog)] = packetERROR(0, ErrReadText)
          /\ Len(ErrorSends) = 1
          /\ TrailingRun(SubSeq(wlog, 1, Len(wlog) - 1), cur) = i + 1
          /\ Count(wlog, cur) = i + 1

\* C12 witness: the first wait for the acknowledgement of a data block ended
\* on a failed read.
C12_Witness ==
    /\ outcome = "read_error"
    /\ cur.type = "DATA"
    /\ i = 0

\* C14: at most one error packet is written in a session, and the error
\* packet is the last packet the session writes: the session has ended and
\* nothing follows it.
C14_ErrorTerminal ==
    /\ Len(ErrorSends) <= 1
    /\ ErrorSends # <<>> =>
          /\ IsError(wlog[Len(wlog)])
          /\ pc = "done"
          /\ outcome \notin {"none", "completed", "timeout", "write_error"}

\* C14 witness: the error packet follows two acknowledged data blocks.
C14_Witness ==
    /\ Len(ErrorSends) = 1
    /\ Len(DataBlocks) = 2
    /\ outcome = "stream_error"

\* C13 (amended): a session that ends because a read failed (other than by
\* timeout) or because the backend failed (file resolution or stream read)
\* writes an error packet as its last packet; a session that ends because
\* the write of a packet failed writes no error packet.
C13_ErrorSurfaced ==
    /\ outcome \in {"request_error", "read_error", "backend_error", "stream_error"} =>
          /\ wlog # <<>>
          /\ IsError(wlog[Len(wlog)])
    /\ outcome = "write_error" =>
          /\ ErrorSends = <<>>
          /\ wlog[Len(wlog)] = cur

\* C13 witness: after the OACK and one data block the stream failed and the
\* error packet was written.
C13_Witness ==
    /\ outcome = "stream_error"
    /\ OackSends # <<>>
    /\ Len(DataBlocks) = 1
    /\ wlog[Len(wlog)] = packetERROR(0, ErrStreamText)

\* C13 as stated: every session that ends because of a failed read or a
\* failed write at the transport, or a backend error, has written an error
\* packet.
C13_EveryTransportError ==
    outcome \in {"request_error", "read_error", "write_error",
                 "backend_error", "stream_error"}
        => ErrorSends # <<>>

\* The backend returned a stream for the request.
StreamReturned ==
    /\ req.type = "RRQ"
    /\ calls = <<"ReadFile">>
    /\ ReadFileError(req.filename) = ""

\* C15: a stream the backend returned is open while the session runs (so it
\* is never read after it was closed) and has been closed exactly once when
\* the session has ended, however it ended; a session without a stream
\* closes none.
C15_StreamClosed ==
    /\ StreamReturned =>
          /\ pc \in {"negotiate", "transfer", "write", "read"} => (rc = "open" /\ closes = 0)
          /\ pc = "done" => (rc = "closed" /\ closes = 1)
          /\ pc \in {"negotiate", "transfer", "write", "read", "done"}
    /\ ~StreamReturned =>
          /\ rc = "none"
          /\ closes = 0
          /\ off = 0
          /\ pc \in {"start", "open", "done"}

\* C15 witness: the OACK step timed out and the stream was closed.
C15_Witness ==
    /\ outcome = "timeout"
    /\ cur.type = "OACK"
    /\ rc = "closed"
    /\ closes = 1

\* C17: a Read of zero bytes at the end of the stream ends the loop with
\* Completed and no data packet: no data packet has an empty payload, and
\* the last packet of a completed session is the last non-empty data block,
\* or the OACK or nothing when the file is empty.
C17_NoEmptyBlock ==
    /\ \A k \in DOMAIN DataSends : Len(DataSends[k].data) >= 1
    /\ outcome = "completed" =>
          /\ off = Len(file)
          /\ file = <<>> => (DataSends = <<>> /\ \A k \in DOMAIN wlog : IsOack(wlog[k]))
          /\ file # <<>> =>
                /\ IsData(wlog[Len(wlog)])
                /\ wlog[Len(wlog)].data # <<>>
                /\ wlog[Len(wlog)].data[Len(wlog[Len(wlog)].data)] = file[Len(file)]

\* C17 witness: a file of exactly one full block was completed with one
\* data block.
C17_Witness ==
    /\ outcome = "completed"
    /\ buflen = 8
    /\ Len(file) = 8
    /\ chunk >= buflen
    /\ Len(DataBlocks) = 1

\* C18 (amended): the block counter of data packets starts at 1 and
\* increases by 1 per acknowledged block modulo the width of the counter, and
\* the validator of a data step accepts exactly the block number of its
\* packet; block number 0 is carried by a data packet exactly when the
\* counter has wrapped, that is by every 2^w-th block and by no other.
C18_BlockZeroOnWrap ==
    /\ DataBlocks # <<>> => DataBlocks[1].blockNr = 1
    /\ \A k \in DOMAIN DataBlocks :
          (DataBlocks[k].blockNr = 0) <=> (k % BlockMod = 0)
    /\ \A k \in DOMAIN DataBlocks :
          k > 1 => DataBlocks[k].blockNr = (DataBlocks[k - 1].blockNr + 1) % BlockMod
    /\ (cur.type = "DATA" /\ pc \in {"write", "read"}) => v = cur.blockNr

\* C18 witness: the block after block 2^w - 1 has been written with block
\* number 0.
C18_Witness ==
    /\ Len(DataBlocks) = BlockMod
    /\ DataBlocks[Len(DataBlocks)].blockNr = 0
    /\ pc = "read"

\* C18 as stated: no data packet is ever written with block number 0.
C18_NeverBlockZero ==
    \A k \in DOMAIN DataSends : DataSends[k].blockNr # 0

\* The payloads of a sequence of data packets, joined.
RECURSIVE ConcatData(_)
ConcatData(seq) ==
    IF seq = <<>> THEN <<>> ELSE Head(seq).data \o ConcatData(Tail(seq))

\* C20: every data packet carries between 1 and blksize bytes; the payload
\* of the packet of a data step is the bytes of the last Read; a block is
\* resent with the same bytes; the payloads of the blocks sent, joined in
\* send order, are the bytes of the stream read so far, and the whole stream
\* in a completed session.
C20_DataIntegrity ==
    /\ \A k \in DOMAIN DataSends : Len(DataSends[k].data) \in 1..blksize
    /\ cur.type = "DATA" =>
          /\ Len(cur.data) \in 1..blksize
          /\ cur.data = SubSeq(file, off - Len(cur.data) + 1, off)
          /\ pc \in {"read", "transfer", "done"} =>
                ConcatData(DataBlocks) = SubSeq(file, 1, off)
          /\ pc = "write" =>
                ConcatData(DataBlocks)
                    = SubSeq(file, 1, off - (IF i = 0 THEN Len(cur.data) ELSE 0))
    /\ cur.type # "DATA" => DataSends = <<>>
    /\ \A k \in DOMAIN DataBlocks :
          k > 1 => DataBlocks[k].blockNr # DataBlocks[k - 1].blockNr
    /\ outcome = "completed" => ConcatData(DataBlocks) = file

\* C20 witness: a file of 10 bytes was completed in blocks of 8 and 2 bytes,
\* the first of them written twice.
C20_Witness ==
    /\ outcome = "completed"
    /\ Len(file) = 10
    /\ blksize = 8
    /\ Len(DataBlocks) = 2
    /\ Len(DataBlocks[1].data) = 8
    /\ Count(wlog, DataBlocks[1]) = 2

\* C19: negotiate handles blksize before timeout and does not roll back:
\* when blksize parses and timeout does not, negotiate fails with the block
\* size at the clamped requested value and the timeout unchanged; when
\* blksize does not parse, negotiate fails with block size and timeout
\* unchanged, whatever the timeout value is.
C19_NoRollback ==
    /\ (Negotiated /\ BlksizeParses /\ HasTimeout /\ ~TimeoutParses) =>
          /\ outcome = "negotiation_error"
          /\ wlog = <<packetERROR(8, Atoi(req.options["timeout"]).err)>>
          /\ blksize = Clamp(Atoi(req.options["blksize"]).val, 8, 65464)
          /\ timeout = 3
    /\ (Negotiated /\ HasBlksize /\ ~BlksizeParses) =>
          /\ outcome = "negotiation_error"
          /\ wlog = <<packetERROR(8, Atoi(req.options["blksize"]).err)>>
          /\ blksize = 512
          /\ timeout = 3

\* C19 witness: blksize 7 was requested beside a timeout that does not
\* parse, and negotiate has failed with the block size at 8.
C19_Witness ==
    /\ outcome = "negotiation_error"
    /\ HasTimeout
    /\ ~TimeoutParses
    /\ HasBlksize
    /\ req.options["blksize"] = <<"7">>
    /\ blksize = 8
    /\ timeout = 3

\* The terminal outcomes: Completed, Aborted-by-error, Aborted-by-timeout.
Completed == outcome = "completed"

AbortedByError ==
    outcome \in {"request_error", "not_supported", "illegal_operation",
                 "backend_error", "negotiation_error", "stream_error",
                 "write_error", "read_error"}

AbortedByTimeout == outcome = "timeout"

\* C16: every session terminates: for a stream of finite length, when every
\* read returns within its timeout and time advances, serve reaches
\* Completed, Aborted-by-error or Aborted-by-timeout and stays there,
\* whatever the peer sends or withholds.
C16_Terminates ==
    <>[](pc = "done" /\ (Completed \/ AbortedByError \/ AbortedByTimeout))

\* C16 witness: a session ended by timeout whose third wait for the
\* acknowledgement of a data block read a packet that does not match.
C16_Witness ==
    /\ AbortedByTimeout
    /\ cur.type = "DATA"
    /\ Count(wlog, cur) = 3
    /\ reply.type \in {"ACK", "ERROR"}

====
